---- MODULE Spec2Model ----
(***************************************************************************)
(* Model of the FFTE scan service (src/ffte_api_fixed.py).                 *)
(*                                                                         *)
(* Threads.  Every HTTP handler is an "async def" without an await, so     *)
(* the handlers run one at a time on the event loop thread ("loop").       *)
(* FFTEScanner.run_scan is a plain function given to BackgroundTasks, so   *)
(* each accepted scan gets one thread-pool worker that runs concurrently   *)
(* with the loop thread and with the other workers.  Threads interleave    *)
(* between the steps below; a "with lock:" block is two steps, the         *)
(* acquisition and the body with the release.                              *)
(*                                                                         *)
(* Optional values (Python None) are sequences: <<>> is None, <<x>> is x.  *)
(***************************************************************************)
EXTENDS Integers, Sequences, FiniteSets, TLC

\* ------------------------------------------------------------------ bounds
\* Number of scan ids (uuid4 values) the service hands out.
MaxScans == 2

\* --------------------------------------------------------------- constants
\* endpoints[:10] in start_scan
PreviewLimit == 10

VARIABLES
    scans,      \* ScanManager.scans: scan id -> record (a dict held by reference)
    lock,       \* ScanManager.lock: the thread that holds it
    nextId,     \* the next uuid4 value
    hpc,        \* position of the loop thread inside the handler it runs
    req,        \* the request the loop thread serves (or served last)
    hloc,       \* the handler's local variables
    response,   \* the response sent by the handler that returned last
    wpc,        \* per scan id: position of its background worker in run_scan
    wloc,       \* per scan id: the worker's local variables
    versions,   \* history: per scan id, every value the stored record has had
    termUpdates, \* history: per scan id, terminal updates applied to its record
    deleted,    \* history: the scan ids for which delete_scan has returned True
    scheduled,  \* history: per scan id, the add_task(run_scan, id) calls made
    source,     \* openapi_parser: what the fetch or the file read gave
    ppc,        \* openapi_parser: position of the caller of the parser
    pout,       \* openapi_parser: the call made last and what it returned or raised
    engine_report, \* run_scan: the report core_run returned
    fpc,        \* run_scan: position around the loop that builds failures_list
    failures_list  \* run_scan: the list built from the report

vars == <<scans, lock, nextId, hpc, req, hloc, response, wpc, wloc,
          versions, termUpdates, deleted, scheduled, source, ppc, pout,
          engine_report, fpc, failures_list>>

Ids == 1..MaxScans

None == <<>>
Some(x) == <<x>>
IsNone(o) == o = <<>>
Get(o) == o[1]

\* ----------------------------------------------------------------- threads
LoopThread == <<"loop", 0>>
Worker(id) == <<"worker", id>>
NoHolder == <<"none", 0>>

\* ------------------------------------------------------------------ inputs
\* ScanRequest.spec_url / target_url: absent, empty, or a URL.
SpecUrlInputs == {None, Some("http://s")}
TargetUrlInputs == {None, Some(""), Some("http://t")}

\* mutant: only None is falsy ("if url is None")
TruthyNotNone(o) == ~IsNone(o)

\* Python truthiness of an Optional[str]: None and "" are falsy.
Truthy(o) == ~IsNone(o) /\ Get(o) # ""

\* mutant: the operands swapped ("b or a")
PyOrSwapped(a, b) == IF Truthy(b) THEN b ELSE a

\* Python's "a or b" on two Optional[str].
PyOr(a, b) == IF Truthy(a) THEN a ELSE b

\* fetch_and_parse: raises, or returns a non-empty endpoint list (its length).
FetchOutcomes == {[ok |-> FALSE, n |-> 0], [ok |-> TRUE, n |-> PreviewLimit + 1]}

Min(a, b) == IF a < b THEN a ELSE b

\* core_run: a failure report (failure kind -> reproduction commands, in the
\* dict's order), or an exception.
Reports == { <<>>,
             <<[kind |-> "crash", cmds |-> <<"c1", "c2">>],
               [kind |-> "timeout", cmds |-> <<"c3">>]>> }
EngineErrors == {"engine failed"}

\* mutant: only the first kind's commands are counted
SumLensFirstKind(report) ==
    IF report = <<>> THEN 0 ELSE Len(Head(report).cmds)

RECURSIVE SumLens(_)
\* sum(len(cmds) for cmds in report.values())
SumLens(report) ==
    IF report = <<>> THEN 0
    ELSE Len(Head(report).cmds) + SumLens(Tail(report))

RECURSIVE FlattenCmds(_, _)
FlattenCmds(kind, cmds) ==
    IF cmds = <<>> THEN <<>>
    ELSE <<[type |-> kind, cmd |-> Head(cmds)]>> \o FlattenCmds(kind, Tail(cmds))

RECURSIVE Flatten(_)
\* failures_list: one entry per command, kinds and commands in report order
Flatten(report) ==
    IF report = <<>> THEN <<>>
    ELSE FlattenCmds(Head(report).kind, Head(report).cmds) \o Flatten(Tail(report))

\* ------------------------------------------- reproduction commands, parsed
\* A command is a sequence of pieces of text: the pieces the two patterns and
\* the POST test tell apart, each written as the characters it stands for.
DQ == "\""
SQ == "'"
PostMarker == <<"-X", " ", "POST">>
BodyFlag == <<"-d", " ">>
EmptyObject == <<"{}">>

\* text[i:].startswith(lit)
StartsAt(text, i, lit) ==
    /\ i + Len(lit) - 1 <= Len(text)
    /\ SubSeq(text, i, i + Len(lit) - 1) = lit

RECURSIVE FindFrom(_, _, _)
\* lit in text, scanning from position i
FindFrom(text, lit, i) ==
    IF i + Len(lit) - 1 > Len(text) THEN FALSE
    ELSE IF StartsAt(text, i, lit) THEN TRUE
    ELSE FindFrom(text, lit, i + 1)

\* "POST" if "-X POST" in cmd else "GET"
MethodOf(cmd) == IF FindFrom(cmd, PostMarker, 1) THEN "POST" ELSE "GET"

RECURSIVE RunEnd(_, _, _)
\* [^q]+ taken greedily from position k: the position after the run
RunEnd(text, k, q) ==
    IF k > Len(text) THEN k
    ELSE IF text[k] = q THEN k
    ELSE RunEnd(text, k + 1, q)

\* ([^q]+)q from position k: the group, when the run is not empty and the
\* closing quote follows it
GroupFrom(text, k, e, q) ==
    IF e > k /\ e <= Len(text) THEN Some(SubSeq(text, k, e - 1)) ELSE None

\* https?:// at position i: the position after it, 0 when it does not match
SchemeEnd(text, i) ==
    IF StartsAt(text, i, <<"http", "s", "://">>) THEN i + 3
    ELSE IF StartsAt(text, i, <<"http", "://">>) THEN i + 2
    ELSE 0

\* the group of "(https?://[^"]+)" matched at position i; it starts at the scheme
UrlGroup(text, i, k) ==
    IF k = 0 THEN None
    ELSE IF RunEnd(text, k, DQ) > k /\ RunEnd(text, k, DQ) <= Len(text)
         THEN Some(SubSeq(text, i + 1, RunEnd(text, k, DQ) - 1))
         ELSE None

UrlMatchAt(text, i) ==
    IF text[i] = DQ THEN UrlGroup(text, i, SchemeEnd(text, i + 1)) ELSE None

RECURSIVE UrlSearch(_, _)
\* re.search(r'"(https?://[^"]+)"', cmd): the leftmost match
UrlSearch(text, i) ==
    IF i > Len(text) THEN None
    ELSE IF ~IsNone(UrlMatchAt(text, i)) THEN UrlMatchAt(text, i)
    ELSE UrlSearch(text, i + 1)

\* the group of -d '([^']+)' matched at position i
PayloadMatchAt(text, i) ==
    IF StartsAt(text, i, BodyFlag \o <<SQ>>)
    THEN GroupFrom(text, i + 3, RunEnd(text, i + 3, SQ), SQ)
    ELSE None

RECURSIVE PayloadSearch(_, _)
\* re.search(r"-d '([^']+)'", cmd): the leftmost match
PayloadSearch(text, i) ==
    IF i > Len(text) THEN None
    ELSE IF ~IsNone(PayloadMatchAt(text, i)) THEN PayloadMatchAt(text, i)
    ELSE PayloadSearch(text, i + 1)

\* url = "" unless the pattern matches
UrlOf(url_match) == IF IsNone(url_match) THEN <<>> ELSE Get(url_match)

\* payload = "{}" unless the pattern matches
PayloadOf(payload_match) ==
    IF IsNone(payload_match) THEN EmptyObject ELSE Get(payload_match)

\* the dict appended to failures_list for one command
FailureEntry(failure_type, cmd) ==
    [method |-> MethodOf(cmd),
     url |-> UrlOf(UrlSearch(cmd, 1)),
     type |-> failure_type,
     payload |-> PayloadOf(PayloadSearch(cmd, 1))]

RECURSIVE FailureEntries(_, _)
\* for cmd in curl_commands
FailureEntries(failure_type, curl_commands) ==
    IF curl_commands = <<>> THEN <<>>
    ELSE <<FailureEntry(failure_type, Head(curl_commands))>>
         \o FailureEntries(failure_type, Tail(curl_commands))

RECURSIVE FailuresList(_)
\* for failure_type, curl_commands in report.items()
FailuresList(report) ==
    IF report = <<>> THEN <<>>
    ELSE FailureEntries(Head(report).kind, Head(report).cmds)
         \o FailuresList(Tail(report))

\* ---------------------------------------------- reports the engine can give
\* core_run returns any mapping from failure kind to a list of strings: the
\* commands below are built from the parts a curl command line has, in both
\* orders, together with every text of at most MaxPieces pieces.
MaxPieces == 2
Pieces == {"curl", " ", "-X", "POST", "PUT", "-H", "-d", DQ, SQ, "http", "s", "://", "a", "{}"}

RECURSIVE Texts(_)
Texts(n) ==
    IF n = 0 THEN {<<>>}
    ELSE Texts(n - 1) \cup {Append(t, p) : t \in Texts(n - 1), p \in Pieces}

MethodParts ==
    { <<>>,
      <<" ", "-X", " ", "POST">>,
      <<" ", "-X", " ", "PUT">>,
      <<" ", "-X", "POST">> }

UrlParts ==
    { <<>>,
      <<" ", DQ, "http", "://", "a", DQ>>,
      <<" ", DQ, "http", "s", "://", "a", "a", DQ>>,
      <<" ", DQ, "http", "://", DQ>>,
      <<" ", DQ, "a", DQ>>,
      <<" ", DQ, "http", "://", "a">>,
      <<" ", SQ, "http", "://", "a", SQ>>,
      <<" ", "-H", " ", DQ, "a", DQ, "http", "s", "://", DQ, "a", DQ>> }

BodyParts ==
    { <<>>,
      <<" ", "-d", " ", SQ, "a", SQ>>,
      <<" ", "-d", " ", SQ, "{}", SQ>>,
      <<" ", "-d", " ", SQ, SQ>>,
      <<" ", "-d", " ", DQ, "a", DQ>>,
      <<" ", "-d", " ", SQ, "a">>,
      <<" ", "-d", " ", " ", SQ, "a", SQ>>,
      <<" ", "-d", " ", SQ, DQ, "http", "://", "a", "a", "a", DQ, SQ>>,
      <<" ", "-d", " ", SQ, "-X", " ", "POST", SQ>> }

Commands ==
    Texts(MaxPieces)
    \cup { <<"curl">> \o m \o u \o b : m \in MethodParts, u \in UrlParts, b \in BodyParts }
    \cup { <<"curl">> \o m \o b \o u : m \in MethodParts, u \in UrlParts, b \in BodyParts }
    \cup { <<"curl">> \o u \o v : u \in UrlParts, v \in UrlParts }
    \cup { <<"curl">> \o b \o c : b \in BodyParts, c \in BodyParts }

\* the commands listed together in the reports of several kinds
ListedCommands ==
    { <<"curl", " ", "-X", " ", "POST", " ", DQ, "http", "://", "a", DQ,
        " ", "-d", " ", SQ, "a", SQ>>,
      <<"curl", " ", DQ, "http", "s", "://", "a", "a", DQ>>,
      <<"curl", " ", "-X", " ", "POST", " ", DQ, "http", "://", "a", DQ,
        " ", "-d", " ", SQ, SQ>> }

CommandLists ==
    {<<>>} \cup { <<c>> : c \in ListedCommands }
    \cup { <<c, d>> : c \in ListedCommands, d \in ListedCommands }

FailureKinds == {"crash", "timeout"}

EngineReports ==
    { <<[kind |-> k, cmds |-> <<c>>]>> : k \in FailureKinds, c \in Commands }
    \cup { <<[kind |-> "crash", cmds |-> l], [kind |-> "timeout", cmds |-> m]>> :
             l \in CommandLists, m \in CommandLists }
    \cup { <<>> }

\* ----------------------------------------------------------------- records
Terminal == {"completed", "failed"}

\* mutant: the record is created already running
NewScanDataRunning(id, request, url, preview) ==
    [scan_id |-> id,
     request |-> [spec_url |-> request.spec_url, target_url |-> url],
     status |-> "running",
     progress |-> 10,
     end_time |-> None,
     tests_executed |-> 0,
     failures_found |-> 0,
     endpoints |-> preview,
     results |-> None,
     error |-> None]

\* scan_data built by start_scan
NewScanData(id, request, url, preview) ==
    [scan_id |-> id,
     request |-> [spec_url |-> request.spec_url, target_url |-> url],
     status |-> "pending",
     progress |-> 0,
     end_time |-> None,
     tests_executed |-> 0,
     failures_found |-> 0,
     endpoints |-> preview,
     results |-> None,
     error |-> None]

\* mutant: the running update leaves the status as it was
RunningFieldsProgressOnly(rec) == [rec EXCEPT !.progress = 10]

\* kwargs of the three update_scan calls in run_scan
RunningFields(rec) == [rec EXCEPT !.status = "running", !.progress = 10]

\* mutant: the completed update does not set the end time
CompletedFieldsWithoutEndTime(rec, report, endpoint_count) ==
    [rec EXCEPT !.status = "completed",
                !.progress = 100,
                !.tests_executed = Len(Flatten(report)),
                !.failures_found = SumLens(report),
                !.results = Some([report |-> report,
                                  failures |-> Flatten(report),
                                  statistics |-> [total_tests |-> Len(Flatten(report)),
                                                  failures |-> SumLens(report),
                                                  endpoints |-> endpoint_count]])]

CompletedFields(rec, report, endpoint_count) ==
    [rec EXCEPT !.status = "completed",
                !.progress = 100,
                !.end_time = Some("now"),
                !.tests_executed = Len(Flatten(report)),
                !.failures_found = SumLens(report),
                !.results = Some([report |-> report,
                                  failures |-> Flatten(report),
                                  statistics |-> [total_tests |-> Len(Flatten(report)),
                                                  failures |-> SumLens(report),
                                                  endpoints |-> endpoint_count]])]

\* mutant: the failed update leaves the status as it was
FailedFieldsKeepsStatus(rec, err) ==
    [rec EXCEPT !.error = Some(err),
                !.progress = 100,
                !.end_time = Some("now")]

\* mutant: the failed update does not attach the message
FailedFieldsWithoutError(rec, err) ==
    [rec EXCEPT !.status = "failed",
                !.progress = 100,
                !.end_time = Some("now")]

\* mutant: the failed update resets the progress
FailedFieldsResetProgress(rec, err) ==
    [rec EXCEPT !.status = "failed",
                !.error = Some(err),
                !.progress = 0,
                !.end_time = Some("now")]

FailedFields(rec, err) ==
    [rec EXCEPT !.status = "failed",
                !.error = Some(err),
                !.progress = 100,
                !.end_time = Some("now")]

\* mutant: the update is written to every stored record
UpdatedEveryRecord(s, id, new) ==
    IF id \in DOMAIN s THEN [k \in DOMAIN s |-> new] ELSE s

\* ScanManager.update_scan's body: only a record still in the store is updated
Updated(s, id, new) == IF id \in DOMAIN s THEN [s EXCEPT ![id] = new] ELSE s

\* inserting a key into a dict
Inserted(s, id, rec) == [k \in DOMAIN s \cup {id} |-> IF k = id THEN rec ELSE s[k]]

\* del self.scans[scan_id]
Removed(s, id) == [k \in DOMAIN s \ {id} |-> s[k]]

\* history bookkeeping for a store that became t: the values each record in
\* the store has had since it was inserted
VersionsAfter(v, t) == [k \in Ids |-> IF k \in DOMAIN t THEN v[k] \cup {t[k]} ELSE {}]

\* history bookkeeping: a terminal update was applied to id's record in s
TermUpdatesAfter(c, s, id) == IF id \in DOMAIN s THEN [c EXCEPT ![id] = @ + 1] ELSE c

\* ============================================== surface_discovery/openapi_parser
\* A JSON value is a pair <<type, content>>: its Python type after json.load
\* and its content. A dict is the sequence of its <<key, value>> items in insertion
\* order, a list the sequence of its items, and a str the sequence of its
\* "/"-separated segments, so that "#/a/b" is <<"#", "a", "b">>.
JNull == <<"null", <<>>>>
JBool(b) == <<"bool", b>>
JNum(n) == <<"num", n>>
JStr(segments) == <<"str", segments>>
JList(items) == <<"list", items>>
JDict(items) == <<"dict", items>>

TypeOf(x) == x[1]
Content(x) == x[2]

\* isinstance(x, dict)
IsDict(x) == TypeOf(x) = "dict"

\* "not x" for a JSON value
Falsy(x) ==
    CASE TypeOf(x) = "null" -> TRUE
      [] TypeOf(x) = "bool" -> ~Content(x)
      [] TypeOf(x) = "num" -> Content(x) = 0
      [] TypeOf(x) = "str" -> Content(x) = <<"">>
      [] OTHER -> Content(x) = <<>>

\* key in d
HasKey(d, key) == \E i \in 1..Len(Content(d)) : Content(d)[i][1] = key

\* d.get(key, default)
DictGet(d, key, default) ==
    IF HasKey(d, key)
    THEN Content(d)[CHOOSE i \in 1..Len(Content(d)) : Content(d)[i][1] = key][2]
    ELSE default

\* a call returns a value or raises
Ok(x) == [ok |-> TRUE, v |-> x, err |-> ""]
Raised(e) == [ok |-> FALSE, v |-> <<>>, err |-> e]

\* stands for the interpreter's recursion limit: the frames resolve_refs may
\* nest before RecursionError is raised
MaxDepth == 8

\* ref.startswith("#/")
StartsWithHashSlash(segments) == Len(segments) >= 2 /\ segments[1] = "#"

RECURSIVE Walk(_, _)
\* for part in parts: obj = obj.get(part, {}); a str, list or number has no get
Walk(obj, parts) ==
    IF parts = <<>> THEN Ok(obj)
    ELSE IF ~IsDict(obj) THEN Raised("AttributeError")
    ELSE Walk(DictGet(obj, Head(parts), JDict(<<>>)), Tail(parts))

\* the first exception raised while the items of a comprehension or loop are
\* evaluated in order
FirstRaised(outs) ==
    outs[CHOOSE i \in 1..Len(outs) :
            ~outs[i].ok /\ \A j \in 1..(i - 1) : outs[j].ok]

AnyRaised(outs) == \E i \in 1..Len(outs) : ~outs[i].ok

\* the values of a comprehension or loop, unless one of its items raised
Collected(outs) ==
    IF AnyRaised(outs) THEN FirstRaised(outs)
    ELSE Ok([i \in 1..Len(outs) |-> outs[i].v])

\* the value out wrapped as a list or as a dict with the given keys, unless
\* building it raised
AsList(out) == IF out.ok THEN Ok(JList(out.v)) ELSE out
AsDict(keys, out) ==
    IF out.ok THEN Ok(JDict([i \in 1..Len(keys) |-> <<keys[i][1], out.v[i]>>])) ELSE out

RECURSIVE resolve_refs(_, _, _)

\* [resolve_refs(item, spec) if isinstance(item, dict) else item for item in v]
ResolveItems(items, spec, depth) ==
    AsList(Collected([i \in 1..Len(items) |->
                         IF IsDict(items[i]) THEN resolve_refs(items[i], spec, depth)
                         ELSE Ok(items[i])]))

\* the three branches of the rebuild loop for one value
ResolveField(x, spec, depth) ==
    IF IsDict(x) THEN resolve_refs(x, spec, depth)
    ELSE IF TypeOf(x) = "list" THEN ResolveItems(Content(x), spec, depth)
    ELSE Ok(x)

\* return resolve_refs(obj, spec), unless walking the pointer raised
ResolveTarget(target, spec, depth) ==
    IF target.ok THEN resolve_refs(target.v, spec, depth) ELSE target

\* resolve_refs(schema, spec) with depth frames left
resolve_refs(schema, spec, depth) ==
    IF ~IsDict(schema) THEN Ok(schema)
    ELSE IF depth = 0 THEN Raised("RecursionError")
    ELSE IF HasKey(schema, "$ref") /\ TypeOf(DictGet(schema, "$ref", JNull)) # "str"
    THEN Raised("AttributeError")
    ELSE IF HasKey(schema, "$ref")
            /\ StartsWithHashSlash(Content(DictGet(schema, "$ref", JNull)))
    THEN ResolveTarget(Walk(spec, Tail(Content(DictGet(schema, "$ref", JNull)))),
                       spec, depth - 1)
    ELSE AsDict(Content(schema),
                Collected([i \in 1..Len(Content(schema)) |->
                              ResolveField(Content(schema)[i][2], spec, depth - 1)]))

\* the items of a list that are dicts, in order
DictItems(items) == SelectSeq(items, IsDict)

\* Parameter(...) for one dict p of the parameters list, declared being
\* p.get("schema") and resolved its resolve_refs (or {} when it is no dict)
Parameter(p, declared, resolved) ==
    IF ~resolved.ok THEN resolved
    ELSE Ok([name |-> DictGet(p, "name", JStr(<<"">>)),
             location |-> DictGet(p, "in", JStr(<<"">>)),
             param_type |-> IF IsDict(declared) THEN DictGet(declared, "type", JNull)
                            ELSE JNull,
             required |-> DictGet(p, "required", JBool(FALSE)),
             schema |-> resolved.v])

\* schema=resolve_refs(p.get("schema", {}), spec) if isinstance(p.get("schema"), dict) else {}
ResolveDeclared(declared, spec, depth) ==
    IF IsDict(declared) THEN resolve_refs(declared, spec, depth) ELSE Ok(JDict(<<>>))

ParseParameter(p, spec, depth) ==
    Parameter(p, DictGet(p, "schema", JNull),
              ResolveDeclared(DictGet(p, "schema", JNull), spec, depth))

\* the loop over the dict items of the parameters list
ParseParameters(ps, spec, depth) ==
    Collected([i \in 1..Len(ps) |-> ParseParameter(ps[i], spec, depth)])

\* _parse_parameters(params_data, spec): only a non-empty list yields
\* parameters, and only its dict items
_parse_parameters(params_data, spec, depth) ==
    IF Falsy(params_data) \/ TypeOf(params_data) # "list" THEN Ok(<<>>)
    ELSE ParseParameters(DictItems(Content(params_data)), spec, depth)

\* "json" in ct.lower(), for the media type names the documents use
ContainsJson(ct) ==
    ct \in {"application/json", "Application/JSON", "application/problem+json"}

\* ct_spec is a dict, ct names json and ct_spec.get("schema", {}) is a dict
JsonWithSchema(ct, ct_spec) ==
    /\ IsDict(ct_spec)
    /\ ContainsJson(ct)
    /\ IsDict(DictGet(ct_spec, "schema", JDict(<<>>)))

RECURSIVE FirstJsonSchema(_, _, _)
\* for ct, ct_spec in content.items(): the first dict entry with a json media
\* type and a dict schema decides
FirstJsonSchema(items, spec, depth) ==
    IF items = <<>> THEN Ok(JNull)
    ELSE IF JsonWithSchema(Head(items)[1], Head(items)[2])
    THEN resolve_refs(DictGet(Head(items)[2], "schema", JDict(<<>>)), spec, depth)
    ELSE FirstJsonSchema(Tail(items), spec, depth)

\* _parse_request_body(req_body, spec): None unless a json content is found
_parse_request_body(req_body, spec, depth) ==
    IF Falsy(req_body) \/ ~IsDict(req_body) THEN Ok(JNull)
    ELSE IF ~IsDict(DictGet(req_body, "content", JDict(<<>>))) THEN Ok(JNull)
    ELSE FirstJsonSchema(Content(DictGet(req_body, "content", JDict(<<>>))), spec, depth)

\* the method names fetch_and_parse and parse_from_file accept
Methods == {"get", "post", "put", "patch", "delete", "head", "options", "trace"}

\* method.lower(), for the keys the documents use
Lower(key) ==
    CASE key = "GET" -> "get"
      [] key = "Post" -> "post"
      [] key = "Summary" -> "summary"
      [] OTHER -> key

\* Endpoint(...) from the parsed parameters and request body, unless parsing
\* either raised
Endpoint(path, method, operation, params, body) ==
    IF ~params.ok THEN params
    ELSE IF ~body.ok THEN body
    ELSE Ok([path |-> path,
             method |-> Lower(method),
             summary |-> DictGet(operation, "summary", JNull),
             parameters |-> params.v,
             request_body_schema |-> body.v,
             operation_id |-> DictGet(operation, "operationId", JNull)])

\* the body of the inner loop for one operation
ParseOperation(path, method, operation, spec) ==
    Endpoint(path, method, operation,
             _parse_parameters(DictGet(operation, "parameters", JList(<<>>)),
                               spec, MaxDepth),
             _parse_request_body(DictGet(operation, "requestBody", JNull),
                                 spec, MaxDepth))

\* endpoints.append(e) before the rest of the loop runs; an exception ends it
Appended(e, rest) ==
    IF ~e.ok THEN e
    ELSE IF ~rest.ok THEN rest
    ELSE Ok(<<e.v>> \o rest.v)

\* the endpoints of one path item followed by those of the later ones
Extended(es, rest) ==
    IF ~es.ok THEN es
    ELSE IF ~rest.ok THEN rest
    ELSE Ok(es.v \o rest.v)

RECURSIVE ParseItem(_, _, _)
\* for method, operation in path_item.items(): keys that are no method and
\* operations that are no dict are skipped
ParseItem(path, items, spec) ==
    IF items = <<>> THEN Ok(<<>>)
    ELSE IF Lower(Head(items)[1]) \notin Methods \/ ~IsDict(Head(items)[2])
    THEN ParseItem(path, Tail(items), spec)
    ELSE Appended(ParseOperation(path, Head(items)[1], Head(items)[2], spec),
                  ParseItem(path, Tail(items), spec))

RECURSIVE ParsePaths(_, _)
\* for path, path_item in paths.items(): a path item that is no dict is skipped
ParsePaths(items, spec) ==
    IF items = <<>> THEN Ok(<<>>)
    ELSE IF ~IsDict(Head(items)[2]) THEN ParsePaths(Tail(items), spec)
    ELSE Extended(ParseItem(Head(items)[1], Content(Head(items)[2]), spec),
                  ParsePaths(Tail(items), spec))

\* if not endpoints: raise ValueError; return endpoints
NonEmpty(endpoints) ==
    IF ~endpoints.ok THEN endpoints
    ELSE IF endpoints.v = <<>> THEN Raised("ValueError: No valid endpoints found")
    ELSE endpoints

\* what both parsers do with the loaded document
ParseSpec(spec) ==
    IF ~IsDict(spec) THEN Raised("ValueError: spec must be an object")
    ELSE IF ~IsDict(DictGet(spec, "paths", JDict(<<>>)))
    THEN Raised("ValueError: paths must be an object")
    ELSE NonEmpty(ParsePaths(Content(DictGet(spec, "paths", JDict(<<>>))), spec))

\* fetch_and_parse(openapi_url): loaded is what requests.get and
\* response.json() gave
fetch_and_parse(loaded) ==
    CASE loaded.status = "unreachable" -> Raised("ValueError: Failed to fetch")
      [] loaded.status = "invalid" -> Raised("ValueError: Invalid JSON")
      [] OTHER -> ParseSpec(loaded.body)

\* parse_from_file(file_path): loaded is what open and json.load or
\* yaml.safe_load gave
parse_from_file(loaded) ==
    CASE loaded.status = "unreachable" -> Raised("ValueError: File not found")
      [] loaded.status = "invalid" -> Raised("ValueError: Failed to read file")
      [] OTHER -> ParseSpec(loaded.body)

\* ---------------------------------------------------- the documents parsed
\* {"$ref": "<segments joined by />"}
Ref(segments) == JDict(<< <<"$ref", JStr(segments)>> >>)

PointerA == <<"#", "components", "schemas", "A">>
PointerB == <<"#", "components", "schemas", "B">>
PointerNode == <<"#", "components", "schemas", "Node">>
PointerVariants == <<"#", "components", "x-lists", "variants">>

SchemaA == JDict(<< <<"type", JStr(<<"string">>)>> >>)

\* a schema that refers to itself through one of its properties
SchemaNode ==
    JDict(<< <<"type", JStr(<<"object">>)>>,
             <<"properties", JDict(<< <<"next", Ref(PointerNode)>> >>)>> >>)

\* the document's components: with or without the self-referring schema
Components(withNode) ==
    JDict(<< <<"schemas",
               JDict(<< <<"A", SchemaA>>, <<"B", Ref(PointerA)>> >>
                     \o (IF withNode THEN << <<"Node", SchemaNode>> >> ELSE <<>>))>>,
             <<"x-lists", JDict(<< <<"variants", JList(<<Ref(PointerA)>>)>> >>)>> >>)

\* the schemas a parameter or a request body carries
Schemas ==
    { SchemaA,
      Ref(PointerA),
      Ref(PointerB),
      Ref(PointerNode),
      Ref(<<"#", "components", "schemas", "Missing">>),
      Ref(<<"other.json#", "components", "schemas", "A">>),
      Ref(<<"#", "info", "title", "x">>),
      JDict(<< <<"$ref", JNum(5)>> >>),
      JDict(<< <<"type", JStr(<<"object">>)>>,
               <<"properties", JDict(<< <<"p", Ref(PointerB)>> >>)>> >>),
      JDict(<< <<"allOf", JList(<<Ref(PointerA), JStr(<<"x">>), SchemaA>>)>> >>),
      JDict(<< <<"examples", JList(<<JList(<<Ref(PointerA)>>)>>)>> >>),
      JDict(<< <<"oneOf", Ref(PointerVariants)>> >>) }

\* the values found where an operation is expected
Operations ==
    { JStr(<<"not an operation">>), JNull }
    \cup { JDict(<< <<"summary", JStr(<<"s">>)>>,
                    <<"parameters",
                      JList(<<JStr(<<"junk">>),
                              JDict(<< <<"name", JStr(<<"q">>)>>,
                                       <<"in", JStr(<<"query">>)>>,
                                       <<"schema", s>> >>)>>)>> >>) : s \in Schemas }
    \cup { JDict(<< <<"operationId", JStr(<<"op">>)>>,
                    <<"requestBody",
                      JDict(<< <<"content",
                                 JDict(<< <<"text/plain", JDict(<< <<"schema", Ref(PointerA)>> >>)>>,
                                          <<"Application/JSON", JStr(<<"junk">>)>>,
                                          <<"application/json", JDict(<< <<"schema", s>> >>)>>
                                       >>)>> >>)>> >>) : s \in Schemas }
    \cup { JDict(<< <<"parameters", JDict(<< <<"name", JStr(<<"q">>)>> >>)>>,
                    <<"requestBody", JDict(<< <<"content", JList(<<>>)>> >>)>> >>) }

\* the keys found in a path item
ItemKeys == {"get", "Post", "summary", "parameters"}

\* the values found where a path item is expected
PathItems ==
    { JStr(<<"not a path item">>) }
    \cup { JDict(<< <<k, op>> >>) : k \in ItemKeys, op \in Operations }

\* a second path, after "/a": none, or a malformed one, or one sound operation
SecondPaths ==
    { <<>>,
      << <<"/b", JList(<<>>)>> >>,
      << <<"/b", JDict(<< <<"GET", JDict(<< <<"summary", JStr(<<"ok">>)>> >>)>>,
                          <<"delete", JNum(1)>> >>)>> >> }

\* what the fetch or the file gave: nothing, no JSON, or a JSON value
Sources ==
    { [status |-> "unreachable", body |-> JNull],
      [status |-> "invalid", body |-> JNull],
      [status |-> "ok", body |-> JList(<<>>)],
      [status |-> "ok", body |-> JDict(<< <<"paths", JList(<<>>)>> >>)],
      [status |-> "ok", body |-> JDict(<< <<"info", JDict(<<>>)>> >>)] }
    \cup { [status |-> "ok",
            body |-> JDict(<< <<"info", JDict(<< <<"title", JStr(<<"t">>)>> >>)>>,
                              <<"paths", JDict(<< <<"/a", item>> >> \o second)>>,
                              <<"components", Components(withNode)>> >>)] :
           item \in PathItems, second \in SecondPaths, withNode \in BOOLEAN }

\* ----------------------------------------------------------------- initial
NoRequest == [op |-> "none", spec_url |-> None, target_url |-> None, id |-> 0,
              after_start |-> FALSE]
NoResponse == [op |-> "none", code |-> 0, id |-> 0, body |-> <<>>, after_start |-> FALSE]
HIdle == [url |-> None, preview |-> 0, refs |-> <<>>, status |-> "", acc |-> <<>>]
WIdle == [report |-> <<>>, error |-> None, endpoint_count |-> 0]

\* the service after construction: an empty store, no request, no worker
ServiceInit ==
    /\ scans = <<>>
    /\ lock = NoHolder
    /\ nextId = 1
    /\ hpc = "idle"
    /\ req = NoRequest
    /\ hloc = HIdle
    /\ response = NoResponse
    /\ wpc = [id \in Ids |-> "none"]
    /\ wloc = [id \in Ids |-> WIdle]
    /\ versions = [id \in Ids |-> {}]
    /\ termUpdates = [id \in Ids |-> 0]
    /\ deleted = {}
    /\ scheduled = [id \in Ids |-> 0]

\* no call of the parser is followed
NoSource == [status |-> "none", body |-> JNull]
NoOutput == [op |-> "none", arg |-> JNull, out |-> Ok(<<>>)]

\* no report is being converted
NoReport ==
    /\ engine_report = <<>>
    /\ fpc = "idle"
    /\ failures_list = <<>>

Init ==
    /\ ServiceInit
    /\ source = NoSource
    /\ ppc = "idle"
    /\ pout = NoOutput
    /\ NoReport

fvars == <<engine_report, fpc, failures_list>>

pvars == <<source, ppc, pout, fvars>>

hist == <<versions, termUpdates, deleted, scheduled>>

\* A request arrives at the idle loop thread; the previous response is consumed.
Receive(r, pc) ==
    /\ hpc = "idle"
    /\ req' = r
    /\ response' = NoResponse
    /\ hpc' = pc

\* The handler returns: the response goes out, the request object and the
\* handler's locals die, and the loop thread is idle again.
Respond(code, id, body) ==
    /\ response' = [op |-> req.op, code |-> code, id |-> id, body |-> body,
                     after_start |-> req.after_start]
    /\ req' = NoRequest
    /\ hpc' = "idle"
    /\ hloc' = HIdle

\* with self.lock: entered by thread t
Acquire(t) ==
    /\ lock = NoHolder
    /\ lock' = t

\* leaving the with block
Release == lock' = NoHolder

\* ------------------------------------------------------------ POST /scan/start
ReceiveStart ==
    /\ \E s \in SpecUrlInputs, t \in TargetUrlInputs :
         /\ Truthy(PyOr(s, t)) => nextId <= MaxScans
         /\ Receive([NoRequest EXCEPT !.op = "start", !.spec_url = s, !.target_url = t],
                    "start_check")
    /\ UNCHANGED <<scans, lock, nextId, hloc, wpc, wloc, hist, pvars>>

\* url = request.spec_url or request.target_url; 422 when falsy; uuid4()
StartCheck ==
    /\ hpc = "start_check"
    /\ LET url == PyOr(req.spec_url, req.target_url) IN
         IF ~Truthy(url)
         THEN Respond(422, 0, <<>>)
         ELSE /\ hloc' = [hloc EXCEPT !.url = url]
              /\ hpc' = "start_fetch"
              /\ UNCHANGED <<req, response>>
    /\ UNCHANGED <<scans, lock, nextId, wpc, wloc, hist, pvars>>

\* the preview's fetch_and_parse(url) returns or raises (swallowed)
StartFetch ==
    /\ hpc = "start_fetch"
    /\ \E o \in FetchOutcomes :
         hloc' = [hloc EXCEPT !.preview = IF o.ok THEN Min(o.n, PreviewLimit) ELSE 0]
    /\ hpc' = "start_lock"
    /\ UNCHANGED <<scans, lock, nextId, req, response, wpc, wloc, hist, pvars>>

\* with scan_manager.lock:
StartLock ==
    /\ hpc = "start_lock"
    /\ Acquire(LoopThread)
    /\ hpc' = "start_insert"
    /\ UNCHANGED <<scans, nextId, req, hloc, response, wpc, wloc, hist, pvars>>

\* scans[scan_id] = scan_data; add_task(run_scan, scan_id); return
StartInsert ==
    /\ hpc = "start_insert"
    /\ scans' = Inserted(scans, nextId, NewScanData(nextId, req, hloc.url, hloc.preview))
    /\ versions' = VersionsAfter(versions, scans')
    /\ Release
    /\ wpc' = [wpc EXCEPT ![nextId] = "scheduled"]
    /\ nextId' = nextId + 1
    /\ scheduled' = [scheduled EXCEPT ![nextId] = @ + 1]
    /\ Respond(200, nextId, <<>>)
    /\ UNCHANGED <<wloc, termUpdates, deleted, pvars>>

\* ------------------------------------------------- FFTEScanner.run_scan(id)
\* scan = self.scan_manager.get_scan(scan_id): with self.lock:
WorkerGetLock(id) ==
    /\ wpc[id] = "scheduled"
    /\ Acquire(Worker(id))
    /\ wpc' = [wpc EXCEPT ![id] = "get_ref"]
    /\ UNCHANGED <<scans, nextId, hpc, req, hloc, response, wloc, hist, pvars>>

\* return self.scans.get(scan_id); "if not scan: return"; the request's
\* "target_url or spec_url" is checked, ValueError when it is falsy
WorkerGetRef(id) ==
    /\ wpc[id] = "get_ref"
    /\ Release
    /\ IF id \notin DOMAIN scans
       THEN /\ wpc' = [wpc EXCEPT ![id] = "finished"]
            /\ UNCHANGED wloc
       ELSE IF ~Truthy(PyOr(scans[id].request.target_url, scans[id].request.spec_url))
       THEN /\ wpc' = [wpc EXCEPT ![id] = "except_lock"]
            /\ wloc' = [wloc EXCEPT ![id].error = Some("No spec_url or target_url provided")]
       ELSE /\ wpc' = [wpc EXCEPT ![id] = "run_lock"]
            /\ UNCHANGED wloc
    /\ UNCHANGED <<scans, nextId, hpc, req, hloc, response, hist, pvars>>

\* update_scan(scan_id, status="running", progress=10.0): with self.lock:
WorkerRunLock(id) ==
    /\ wpc[id] = "run_lock"
    /\ Acquire(Worker(id))
    /\ wpc' = [wpc EXCEPT ![id] = "run_update"]
    /\ UNCHANGED <<scans, nextId, hpc, req, hloc, response, wloc, hist, pvars>>

\* mutant: the lock is still held when core_run is called
WorkerRunUpdateKeepsLock(id) ==
    /\ wpc[id] = "run_update"
    /\ scans' = Updated(scans, id, RunningFields(scans[id]))
    /\ versions' = VersionsAfter(versions, scans')
    /\ wpc' = [wpc EXCEPT ![id] = "engine"]
    /\ UNCHANGED <<lock, nextId, hpc, req, hloc, response, wloc, termUpdates, deleted, scheduled, pvars>>

\* if scan_id in self.scans: self.scans[scan_id].update(kwargs); then core_run is called
WorkerRunUpdate(id) ==
    /\ wpc[id] = "run_update"
    /\ scans' = Updated(scans, id, RunningFields(scans[id]))
    /\ versions' = VersionsAfter(versions, scans')
    /\ Release
    /\ wpc' = [wpc EXCEPT ![id] = "engine"]
    /\ UNCHANGED <<nextId, hpc, req, hloc, response, wloc, termUpdates, deleted, scheduled, pvars>>

\* core_run(...) returns a report or raises
WorkerEngine(id) ==
    /\ wpc[id] = "engine"
    /\ \/ \E r \in Reports :
            /\ wloc' = [wloc EXCEPT ![id].report = r]
            /\ wpc' = [wpc EXCEPT ![id] = "stats_fetch"]
       \/ \E e \in EngineErrors :
            /\ wloc' = [wloc EXCEPT ![id].error = Some(e)]
            /\ wpc' = [wpc EXCEPT ![id] = "except_lock"]
    /\ UNCHANGED <<scans, lock, nextId, hpc, req, hloc, response, hist, pvars>>

\* mutant: a failure of the statistics' fetch_and_parse reaches the except clause
WorkerStatsFetchFatal(id) ==
    /\ wpc[id] = "stats_fetch"
    /\ \E o \in FetchOutcomes :
         IF o.ok
         THEN /\ wloc' = [wloc EXCEPT ![id].endpoint_count = o.n]
              /\ wpc' = [wpc EXCEPT ![id] = "done_lock"]
         ELSE /\ wloc' = [wloc EXCEPT ![id].error = Some("fetch failed")]
              /\ wpc' = [wpc EXCEPT ![id] = "except_lock"]
    /\ UNCHANGED <<scans, lock, nextId, hpc, req, hloc, response, hist, pvars>>

\* the statistics' fetch_and_parse(spec_url) returns or raises (count 0)
WorkerStatsFetch(id) ==
    /\ wpc[id] = "stats_fetch"
    /\ \E o \in FetchOutcomes :
         wloc' = [wloc EXCEPT ![id].endpoint_count = IF o.ok THEN o.n ELSE 0]
    /\ wpc' = [wpc EXCEPT ![id] = "done_lock"]
    /\ UNCHANGED <<scans, lock, nextId, hpc, req, hloc, response, hist, pvars>>

\* update_scan(scan_id, status="completed", ...): with self.lock:
WorkerDoneLock(id) ==
    /\ wpc[id] = "done_lock"
    /\ Acquire(Worker(id))
    /\ wpc' = [wpc EXCEPT ![id] = "done_update"]
    /\ UNCHANGED <<scans, nextId, hpc, req, hloc, response, wloc, hist, pvars>>

\* mutant: an error after the completed update (the trailing print) reaches the
\* except clause
WorkerDoneUpdateThenExcept(id) ==
    /\ wpc[id] = "done_update"
    /\ scans' = Updated(scans, id,
                        CompletedFields(scans[id], wloc[id].report, wloc[id].endpoint_count))
    /\ versions' = VersionsAfter(versions, scans')
    /\ termUpdates' = TermUpdatesAfter(termUpdates, scans, id)
    /\ Release
    /\ wpc' = [wpc EXCEPT ![id] = "except_lock"]
    /\ wloc' = [wloc EXCEPT ![id] = [WIdle EXCEPT !.error = Some("print failed")]]
    /\ UNCHANGED <<nextId, hpc, req, hloc, response, deleted, scheduled, pvars>>

\* the completed update is applied if the record is still stored; run_scan returns
WorkerDoneUpdate(id) ==
    /\ wpc[id] = "done_update"
    /\ scans' = Updated(scans, id,
                        CompletedFields(scans[id], wloc[id].report, wloc[id].endpoint_count))
    /\ versions' = VersionsAfter(versions, scans')
    /\ termUpdates' = TermUpdatesAfter(termUpdates, scans, id)
    /\ Release
    /\ wpc' = [wpc EXCEPT ![id] = "finished"]
    /\ wloc' = [wloc EXCEPT ![id] = WIdle]
    /\ UNCHANGED <<nextId, hpc, req, hloc, response, deleted, scheduled, pvars>>

\* except Exception as e: update_scan(scan_id, status="failed", ...): with self.lock:
WorkerExceptLock(id) ==
    /\ wpc[id] = "except_lock"
    /\ Acquire(Worker(id))
    /\ wpc' = [wpc EXCEPT ![id] = "except_update"]
    /\ UNCHANGED <<scans, nextId, hpc, req, hloc, response, wloc, hist, pvars>>

\* the failed update is applied if the record is still stored; run_scan returns
WorkerExceptUpdate(id) ==
    /\ wpc[id] = "except_update"
    /\ scans' = Updated(scans, id, FailedFields(scans[id], Get(wloc[id].error)))
    /\ versions' = VersionsAfter(versions, scans')
    /\ termUpdates' = TermUpdatesAfter(termUpdates, scans, id)
    /\ Release
    /\ wpc' = [wpc EXCEPT ![id] = "finished"]
    /\ UNCHANGED <<nextId, hpc, req, hloc, response, wloc, deleted, scheduled, pvars>>

\* ------------------------------------------------------------ GET /scan/{id}
\* The caller may name any id, handed out already or not (an unknown id).
ReceiveGet ==
    /\ \E id \in Ids :
         Receive([NoRequest EXCEPT !.op = "get", !.id = id,
                    !.after_start = (response.op = "start" /\ response.code = 200
                                     /\ response.id = id)],
                 "get_lock")
    /\ UNCHANGED <<scans, lock, nextId, hloc, wpc, wloc, hist, pvars>>

\* scan_manager.get_scan(scan_id): with self.lock:
GetLock ==
    /\ hpc = "get_lock"
    /\ Acquire(LoopThread)
    /\ hpc' = "get_ref"
    /\ UNCHANGED <<scans, nextId, req, hloc, response, wpc, wloc, hist, pvars>>

\* return self.scans.get(scan_id): the stored dict itself, not a copy; 404 when absent
GetRef ==
    /\ hpc = "get_ref"
    /\ Release
    /\ IF req.id \in DOMAIN scans
       THEN /\ hloc' = [hloc EXCEPT !.refs = <<req.id>>]
            /\ hpc' = "get_status"
            /\ UNCHANGED <<req, response>>
       ELSE Respond(404, req.id, <<>>)
    /\ UNCHANGED <<scans, nextId, wpc, wloc, hist, pvars>>

\* ScanStatus(...): its arguments are read one by one from the stored dict,
\* with the lock released, so a worker's update can fall between two reads;
\* status=scan["status"] is read first and the other fields in a second step
ReadStatus(pc) ==
    /\ hloc' = [hloc EXCEPT !.status = scans[Head(hloc.refs)].status]
    /\ hpc' = pc
    /\ UNCHANGED <<scans, lock, nextId, req, response, wpc, wloc, hist, pvars>>

\* the ScanStatus built from the status read earlier and the fields read now
Snapshot(rec, status) ==
    [scan_id |-> rec.scan_id,
     status |-> status,
     progress |-> rec.progress,
     end_time |-> rec.end_time,
     target_url |-> rec.request.target_url,
     tests_executed |-> rec.tests_executed,
     failures_found |-> rec.failures_found]

GetReadStatus ==
    /\ hpc = "get_status"
    /\ ReadStatus("get_rest")

\* progress=scan["progress"], ..., failures_found=...; the ScanStatus is returned
GetReadRest ==
    /\ hpc = "get_rest"
    /\ Respond(200, req.id, Snapshot(scans[Head(hloc.refs)], hloc.status))
    /\ UNCHANGED <<scans, lock, nextId, wpc, wloc, hist, pvars>>

\* ---------------------------------------------------------------- GET /scans
ReceiveList ==
    /\ Receive([NoRequest EXCEPT !.op = "list"], "list_lock")
    /\ UNCHANGED <<scans, lock, nextId, hloc, wpc, wloc, hist, pvars>>

\* scan_manager.list_scans(): with self.lock:
ListLock ==
    /\ hpc = "list_lock"
    /\ Acquire(LoopThread)
    /\ hpc' = "list_refs"
    /\ UNCHANGED <<scans, nextId, req, hloc, response, wpc, wloc, hist, pvars>>

RECURSIVE InsertionOrder(_, _)
\* the keys of the dict in insertion order: ids are handed out in increasing order
InsertionOrder(s, k) ==
    IF k > MaxScans THEN <<>>
    ELSE (IF k \in DOMAIN s THEN <<k>> ELSE <<>>) \o InsertionOrder(s, k + 1)

\* return list(self.scans.values()): a new list of the stored dicts themselves
ListRefs ==
    /\ hpc = "list_refs"
    /\ Release
    /\ hloc' = [hloc EXCEPT !.refs = InsertionOrder(scans, 1)]
    /\ hpc' = "list_next"
    /\ UNCHANGED <<scans, nextId, req, response, wpc, wloc, hist, pvars>>

\* the list comprehension: the next dict's status is read, or the list is returned
ListNext ==
    /\ hpc = "list_next"
    /\ IF hloc.refs = <<>>
       THEN /\ Respond(200, 0, hloc.acc)
            /\ UNCHANGED <<scans, lock, nextId, wpc, wloc, hist, pvars>>
       ELSE ReadStatus("list_rest")

\* the rest of that dict's fields are read and its ScanStatus is appended
ListReadRest ==
    /\ hpc = "list_rest"
    /\ hloc' = [hloc EXCEPT !.acc = Append(@, Snapshot(scans[Head(hloc.refs)], hloc.status)),
                            !.refs = Tail(@),
                            !.status = ""]
    /\ hpc' = "list_next"
    /\ UNCHANGED <<scans, lock, nextId, req, response, wpc, wloc, hist, pvars>>

\* --------------------------------------------------------- DELETE /scan/{id}
ReceiveDelete ==
    /\ \E id \in Ids : Receive([NoRequest EXCEPT !.op = "delete", !.id = id], "delete_lock")
    /\ UNCHANGED <<scans, lock, nextId, hloc, wpc, wloc, hist, pvars>>

\* scan_manager.delete_scan(scan_id): with self.lock:
DeleteLock ==
    /\ hpc = "delete_lock"
    /\ Acquire(LoopThread)
    /\ hpc' = "delete_body"
    /\ UNCHANGED <<scans, nextId, req, hloc, response, wpc, wloc, hist, pvars>>

\* mutant: delete_scan returns True for an id that is not in the store
DeleteBodyAlwaysTrue ==
    /\ hpc = "delete_body"
    /\ Release
    /\ scans' = IF req.id \in DOMAIN scans THEN Removed(scans, req.id) ELSE scans
    /\ versions' = VersionsAfter(versions, scans')
    /\ deleted' = deleted \cup {req.id}
    /\ Respond(200, req.id, <<>>)
    /\ UNCHANGED <<nextId, wpc, wloc, termUpdates, scheduled, pvars>>

\* mutant: delete_scan returns True and leaves the record in the store
DeleteBodyKeepsRecord ==
    /\ hpc = "delete_body"
    /\ Release
    /\ deleted' = IF req.id \in DOMAIN scans THEN deleted \cup {req.id} ELSE deleted
    /\ Respond(IF req.id \in DOMAIN scans THEN 200 ELSE 404, req.id, <<>>)
    /\ UNCHANGED <<scans, versions, nextId, wpc, wloc, termUpdates, scheduled, pvars>>

\* if scan_id in self.scans: del self.scans[scan_id]; True, else False (404)
DeleteBody ==
    /\ hpc = "delete_body"
    /\ Release
    /\ scans' = IF req.id \in DOMAIN scans THEN Removed(scans, req.id) ELSE scans
    /\ versions' = VersionsAfter(versions, scans')
    /\ deleted' = IF req.id \in DOMAIN scans THEN deleted \cup {req.id} ELSE deleted
    /\ Respond(IF req.id \in DOMAIN scans THEN 200 ELSE 404, req.id, <<>>)
    /\ UNCHANGED <<nextId, wpc, wloc, termUpdates, scheduled, pvars>>

\* ---------------------------------------------------- GET /scan/{id}/results
ReceiveResults ==
    /\ \E id \in Ids :
         Receive([NoRequest EXCEPT !.op = "results", !.id = id], "results_lock")
    /\ UNCHANGED <<scans, lock, nextId, hloc, wpc, wloc, hist, pvars>>

\* scan_manager.get_scan(scan_id): with self.lock:
ResultsLock ==
    /\ hpc = "results_lock"
    /\ Acquire(LoopThread)
    /\ hpc' = "results_ref"
    /\ UNCHANGED <<scans, nextId, req, hloc, response, wpc, wloc, hist, pvars>>

\* return self.scans.get(scan_id); "if not scan": 404
ResultsRef ==
    /\ hpc = "results_ref"
    /\ Release
    /\ IF req.id \in DOMAIN scans
       THEN /\ hloc' = [hloc EXCEPT !.refs = <<req.id>>]
            /\ hpc' = "results_status"
            /\ UNCHANGED <<req, response>>
       ELSE Respond(404, req.id, <<>>)
    /\ UNCHANGED <<scans, nextId, wpc, wloc, hist, pvars>>

\* mutant: only a pending or running record is answered with 400
ResultsCheckStatusFailedPasses ==
    /\ hpc = "results_status"
    /\ IF scans[Head(hloc.refs)].status \in {"pending", "running"}
       THEN Respond(400, req.id, <<>>)
       ELSE /\ hpc' = "results_read"
            /\ UNCHANGED <<req, hloc, response>>
    /\ UNCHANGED <<scans, lock, nextId, wpc, wloc, hist, pvars>>

\* if scan["status"] != "completed": 400; read from the stored dict, lock released
ResultsCheckStatus ==
    /\ hpc = "results_status"
    /\ IF scans[Head(hloc.refs)].status # "completed"
       THEN Respond(400, req.id, <<>>)
       ELSE /\ hpc' = "results_read"
            /\ UNCHANGED <<req, hloc, response>>
    /\ UNCHANGED <<scans, lock, nextId, wpc, wloc, hist, pvars>>

\* the ScanResult built from scan["results"] and scan["status"]
ResultBody(rec) ==
    [scan_id |-> rec.scan_id,
     status |-> rec.status,
     failures |-> Get(rec.results).failures,
     report |-> Get(rec.results).report,
     statistics |-> Get(rec.results).statistics]

\* if not scan.get("results"): 404; otherwise the ScanResult is returned
ResultsRead ==
    /\ hpc = "results_read"
    /\ IF IsNone(scans[Head(hloc.refs)].results)
       THEN Respond(404, req.id, <<>>)
       ELSE Respond(200, req.id, ResultBody(scans[Head(hloc.refs)]))
    /\ UNCHANGED <<scans, lock, nextId, wpc, wloc, hist, pvars>>

\* ---------------------------------------------------------------- GET /health
ReceiveHealth ==
    /\ Receive([NoRequest EXCEPT !.op = "health"], "health_count")
    /\ UNCHANGED <<scans, lock, nextId, hloc, wpc, wloc, hist, pvars>>

\* "scans_count": len(scan_manager.scans), read without taking the lock
HealthCount ==
    /\ hpc = "health_count"
    /\ Respond(200, 0, <<Cardinality(DOMAIN scans)>>)
    /\ UNCHANGED <<scans, lock, nextId, wpc, wloc, hist, pvars>>

WorkerStep(id) ==
    \/ WorkerGetLock(id)
    \/ WorkerGetRef(id)
    \/ WorkerRunLock(id)
    \/ WorkerRunUpdate(id)
    \/ WorkerEngine(id)
    \/ WorkerStatsFetch(id)
    \/ WorkerDoneLock(id)
    \/ WorkerDoneUpdate(id)
    \/ WorkerExceptLock(id)
    \/ WorkerExceptUpdate(id)

\* a request arrives
ReceiveStep ==
    \/ ReceiveStart
    \/ ReceiveGet
    \/ ReceiveList
    \/ ReceiveDelete
    \/ ReceiveResults
    \/ ReceiveHealth

\* the handler the loop thread is running takes a step
HandlerStep ==
    \/ StartCheck
    \/ StartFetch
    \/ StartLock
    \/ StartInsert
    \/ GetLock
    \/ GetRef
    \/ GetReadStatus
    \/ GetReadRest
    \/ ListLock
    \/ ListRefs
    \/ ListNext
    \/ ListReadRest
    \/ DeleteLock
    \/ DeleteBody
    \/ ResultsLock
    \/ ResultsRef
    \/ ResultsCheckStatus
    \/ ResultsRead
    \/ HealthCount

Next ==
    \/ ReceiveStep
    \/ HandlerStep
    \/ \E id \in Ids : WorkerStep(id)

Spec == Init /\ [][Next]_vars

\* The scan lifecycle alone: scans are started and deleted and their workers
\* run.  get, list and health_check write neither the store nor a worker and
\* are left out, which keeps the liveness check small; the status get(id)
\* reports is the stored one.
LifecycleHandlerStep ==
    \/ StartCheck
    \/ StartFetch
    \/ StartLock
    \/ StartInsert
    \/ DeleteLock
    \/ DeleteBody

LifecycleNext ==
    \/ ReceiveStart
    \/ ReceiveDelete
    \/ LifecycleHandlerStep
    \/ \E id \in Ids : WorkerStep(id)

\* Scheduling: a handler that was entered runs on to its return, and a
\* scheduled worker is run: its blocking calls return or raise, and it gets the
\* lock when the lock is free again and again.
FairSpec ==
    /\ Init /\ [][LifecycleNext]_vars
    /\ WF_vars(LifecycleHandlerStep)
    /\ \A id \in Ids : SF_vars(WorkerStep(id))

\* ------------------------------------------------- calls of the parser
svars == <<scans, lock, nextId, hpc, req, hloc, response, wpc, wloc, hist>>

\* some specification is about to be fetched or read, the service is not used
ParserInit ==
    /\ ServiceInit
    /\ source \in Sources
    /\ ppc = "ready"
    /\ pout = NoOutput
    /\ NoReport

\* fetch_and_parse(openapi_url) is called
FetchAndParse ==
    /\ ppc = "ready"
    /\ pout' = [op |-> "fetch_and_parse", arg |-> JNull, out |-> fetch_and_parse(source)]
    /\ ppc' = "done"
    /\ UNCHANGED <<svars, source, fvars>>

\* parse_from_file(file_path) is called
ParseFromFile ==
    /\ ppc = "ready"
    /\ pout' = [op |-> "parse_from_file", arg |-> JNull, out |-> parse_from_file(source)]
    /\ ppc' = "done"
    /\ UNCHANGED <<svars, source, fvars>>

\* resolve_refs(schema, spec) is called on a schema and the loaded document
ResolveRefs ==
    /\ ppc = "ready"
    /\ source.status = "ok" /\ IsDict(source.body)
    /\ \E schema \in Schemas :
         pout' = [op |-> "resolve_refs", arg |-> schema,
                  out |-> resolve_refs(schema, source.body, MaxDepth)]
    /\ ppc' = "done"
    /\ UNCHANGED <<svars, source, fvars>>

ParserNext ==
    \/ FetchAndParse
    \/ ParseFromFile
    \/ ResolveRefs

ParserSpec == ParserInit /\ [][ParserNext]_vars

\* -------------------------------------- the conversion of an engine report
\* core_run has returned some report, the service and the parser are not used
FlattenInit ==
    /\ ServiceInit
    /\ source = NoSource
    /\ ppc = "idle"
    /\ pout = NoOutput
    /\ engine_report \in EngineReports
    /\ fpc = "loop"
    /\ failures_list = <<>>

\* the loops over report.items() and over each kind's commands
ConvertReport ==
    /\ fpc = "loop"
    /\ failures_list' = FailuresList(engine_report)
    /\ fpc' = "done"
    /\ UNCHANGED <<svars, source, ppc, pout, engine_report>>

FlattenNext == ConvertReport

FlattenSpec == FlattenInit /\ [][FlattenNext]_vars

\* ================================================================== claims
Present(id) == id \in DOMAIN scans

\* C1: once a stored record's status is completed or failed no later step
\* changes that status, and at most one terminal update is ever applied to a
\* record.
C1_TerminalIsFinal ==
    /\ [][\A id \in Ids :
            (Present(id) /\ scans[id].status \in Terminal /\ id \in DOMAIN scans')
                => scans'[id].status = scans[id].status]_vars
    /\ [](\A id \in Ids : termUpdates[id] <= 1)

\* a record is terminal, its worker has returned, and a later get or list was served
C1_Witness ==
    \E id \in Ids :
        /\ Present(id) /\ scans[id].status \in Terminal
        /\ termUpdates[id] = 1 /\ wpc[id] = "finished"
        /\ response.op \in {"get", "list"} /\ response.code = 200

\* C4: a stored record's progress is 0 while pending, 10 while running and 100
\* once completed or failed (so within 0..100), and no step decreases it.
C4_ProgressMonotone ==
    /\ [](\A id \in DOMAIN scans :
            /\ scans[id].progress \in 0..100
            /\ scans[id].status = "pending" => scans[id].progress = 0
            /\ scans[id].status = "running" => scans[id].progress = 10
            /\ scans[id].status \in Terminal => scans[id].progress = 100)
    /\ [][\A id \in Ids :
            (Present(id) /\ id \in DOMAIN scans')
                => scans'[id].progress >= scans[id].progress]_vars

\* one record failed after running, another completed
C4_Witness ==
    \E a, b \in DOMAIN scans :
        /\ scans[a].status = "failed" /\ scans[a].progress = 100
        /\ scans[b].status = "completed" /\ scans[b].progress = 100

\* C2 as stated: every accepted scan eventually has a stored record in exactly
\* one terminal state.
C2_Original ==
    \A id \in Ids :
        (wpc[id] = "scheduled") ~> (Present(id) /\ scans[id].status \in Terminal)

\* C2 amended: every accepted scan eventually has a stored record in a terminal
\* state, unless its record is deleted first.
C2_TerminalUnlessDeleted ==
    \A id \in Ids :
        (wpc[id] = "scheduled") ~> (~Present(id) \/ scans[id].status \in Terminal)

\* a worker has returned and left its record, still stored, in a terminal state
C2_Witness ==
    \E id \in Ids :
        wpc[id] = "finished" /\ Present(id) /\ scans[id].status \in Terminal

\* C3 as stated: a get(id) issued right after start_scan returned id observes
\* status pending and progress 0.
C3_Original ==
    (response.op = "get" /\ response.after_start)
        => (response.code = 200 /\ response.body.status = "pending"
            /\ response.body.progress = 0)

\* C3 amended: when start_scan returns id, the stored record is pending with
\* progress 0 and its worker has not taken a step; a get(id) issued right
\* afterwards finds the record, and observes pending with progress 0 as long as
\* the stored record is still pending.
C3_PendingUntilWorkerRuns ==
    /\ [][(hpc = "start_insert" /\ hpc' = "idle")
          => /\ response'.code = 200
             /\ response'.id \in DOMAIN scans'
             /\ scans'[response'.id].status = "pending"
             /\ scans'[response'.id].progress = 0
             /\ wpc'[response'.id] = "scheduled"]_vars
    /\ []((response.op = "get" /\ response.after_start)
          => /\ response.code = 200
             /\ (Present(response.id) /\ scans[response.id].status = "pending")
                  => (response.body.status = "pending" /\ response.body.progress = 0))

\* a get right after start_scan observed pending
C3_Witness ==
    /\ response.op = "get" /\ response.after_start /\ response.code = 200
    /\ response.body.status = "pending"

\* the snapshot a caller would get of a record value stored at one moment
SnapshotOf(v) == Snapshot(v, v.status)

\* C5 as stated: every status snapshot returned by get(id) or list() equals the
\* record as it was stored at one moment.
C5_Original ==
    /\ (response.op = "get" /\ response.code = 200)
         => \E v \in versions[response.id] : response.body = SnapshotOf(v)
    /\ (response.op = "list" /\ response.code = 200)
         => \A i \in 1..Len(response.body) :
              \E v \in versions[response.body[i].scan_id] : response.body[i] = SnapshotOf(v)

\* the positions from which a thread's next step is one of the registry
\* operations named by the claim
LoopStoreAccess ==
    hpc \in {"start_insert", "get_ref", "list_refs", "delete_body", "health_count"}
WorkerStoreAccess(id) ==
    wpc[id] \in {"get_ref", "run_update", "done_update", "except_update"}

\* C6 as stated: every read and write of the store (update, get, list, delete,
\* start_scan's insertion, health_check's count) happens with the lock held.
C6_Original ==
    /\ LoopStoreAccess => lock = LoopThread
    /\ \A id \in Ids : WorkerStoreAccess(id) => lock = Worker(id)

\* the positions at which a thread is inside a blocking call
LoopBlocked == hpc = "start_fetch"
WorkerBlocked(id) == wpc[id] \in {"engine", "stats_fetch"}

\* C7: no thread holds the registry lock while it is inside a blocking call
\* (the preview fetch of start_scan, the engine call and the statistics fetch
\* of run_scan), and every step that writes the store is taken while the lock
\* is held, hence under an acquisition made after the call returned.
C7_NoLockAcrossBlockingCall ==
    /\ [](LoopBlocked => lock # LoopThread)
    /\ [](\A id \in Ids : WorkerBlocked(id) => lock # Worker(id))
    /\ [][scans' # scans => lock # NoHolder /\ lock' = NoHolder]_vars

\* a worker is inside the engine call, another thread holds the lock meanwhile,
\* and a third is inside the statistics fetch
C7_Witness ==
    \E a, b \in Ids :
        /\ wpc[a] = "engine" /\ wpc[b] = "stats_fetch"
        /\ lock = LoopThread

\* a target identifier is supplied when it is a non-empty string
Supplied(o) == o # None /\ o # Some("")

\* C8: a start_scan request with neither spec_url nor target_url is answered
\* 422 by the step that checks it, which leaves the store, the id counter and
\* every worker unchanged.
C8_NoTargetRejected ==
    [][(hpc = "start_check" /\ hpc' # "start_check"
        /\ ~Supplied(req.spec_url) /\ ~Supplied(req.target_url))
       => /\ hpc' = "idle"
          /\ response'.op = "start" /\ response'.code = 422
          /\ scans' = scans /\ wpc' = wpc /\ nextId' = nextId]_vars

\* a request without target was rejected while a record and a worker exist
C8_Witness ==
    /\ response.op = "start" /\ response.code = 422
    /\ DOMAIN scans # {}
    /\ \E id \in Ids : wpc[id] \notin {"none", "finished"}

\* the caller's request is accepted by the step that checks it
Accepted == hpc = "start_check" /\ hpc' = "start_fetch"
Rejected == hpc = "start_check" /\ hpc' = "idle" /\ response'.code = 422

\* C9 as stated: a request is accepted only if it supplies exactly one of
\* spec_url / target_url.
C9_Original ==
    [][Accepted => (Supplied(req.spec_url) # Supplied(req.target_url))]_vars

\* C9 amended: a request that supplies neither spec_url nor target_url (an
\* empty string counts as not supplied) is rejected with 422 and creates no
\* record; a request that supplies one or both is accepted, the scan's target
\* being spec_url when it is supplied and target_url otherwise, and the record
\* then created carries that target.
C9_AtLeastOneRequired ==
    /\ [][(hpc = "start_check" /\ hpc' # "start_check")
          => IF Supplied(req.spec_url) \/ Supplied(req.target_url)
             THEN /\ Accepted
                  /\ hloc'.url = (IF Supplied(req.spec_url) THEN req.spec_url
                                  ELSE req.target_url)
             ELSE Rejected /\ scans' = scans /\ wpc' = wpc]_vars
    /\ [][(hpc = "start_insert" /\ hpc' = "idle")
          => /\ response'.code = 200
             /\ DOMAIN scans' = DOMAIN scans \cup {response'.id}
             /\ response'.id \notin DOMAIN scans
             /\ scans'[response'.id].request.target_url
                  = (IF Supplied(req.spec_url) THEN req.spec_url ELSE req.target_url)]_vars

\* a request that supplied both was accepted and its record is stored
C9_Witness ==
    \E id \in DOMAIN scans :
        /\ scans[id].request.spec_url = Some("http://s")
        /\ scans[id].request.target_url = Some("http://s")
        /\ response.op = "start" /\ response.code = 200 /\ response.id = id

\* worker id applies the update of its except clause and returns
ExceptReturns(id) == wpc[id] = "except_update" /\ wpc'[id] = "finished"

\* what the failed update leaves in the record
FailedRecord(rec, err) ==
    /\ rec.status = "failed" /\ rec.progress = 100
    /\ rec.end_time # None /\ rec.error = Some(err) /\ rec.results = None

\* the steps of worker id leave every other scan's record and worker, and the
\* loop thread's handler and response, as they were
OthersUntouched(id) ==
    /\ DOMAIN scans' = DOMAIN scans
    /\ \A o \in Ids \ {id} :
         /\ o \in DOMAIN scans => scans'[o] = scans[o]
         /\ wpc'[o] = wpc[o] /\ wloc'[o] = wloc[o]
    /\ hpc' = hpc /\ response' = response /\ req' = req

\* C10 as stated: an error raised in run_scan for X always ends as a stored
\* record of X that is failed, with progress 100, an end time, the message and
\* no results.
C10_Original ==
    [][\A id \in Ids :
         ExceptReturns(id)
           => (id \in DOMAIN scans' /\ FailedRecord(scans'[id], Get(wloc[id].error)))]_vars

\* C10 amended: an error raised in run_scan for X takes the worker to its
\* except clause and nowhere else; the clause's update makes X's record, if it
\* is still stored, failed with progress 100, an end time, the message and no
\* results (a record deleted meanwhile stays deleted), and those steps change
\* no other scan's record or worker and nothing of the loop thread.
C10_ErrorBecomesFailedRecord ==
    /\ [][\A id \in Ids :
            (wpc[id] = "engine" /\ wpc'[id] # "engine" /\ wloc'[id].error # None)
              => (wpc'[id] = "except_lock" /\ scans' = scans /\ OthersUntouched(id))]_vars
    /\ [][\A id \in Ids :
            ExceptReturns(id)
              => /\ Present(id) => FailedRecord(scans'[id], Get(wloc[id].error))
                 /\ ~Present(id) => scans' = scans
                 /\ OthersUntouched(id)]_vars

\* one scan failed on an engine error while another scan's record is stored and
\* not failed
C10_Witness ==
    \E a, b \in DOMAIN scans :
        /\ a # b
        /\ wpc[a] = "finished" /\ FailedRecord(scans[a], "engine failed")
        /\ scans[b].status # "failed"

\* ---------------------------------------------------------------------------
\* C11: a failure of an advisory fetch_and_parse call never changes the
\* outcome. In start_scan the step after the preview fetch is always the insert
\* (nothing is answered, the url is kept), and with an empty preview the insert
\* still stores a pending record, schedules the worker and answers 200. In
\* run_scan the step after the statistics fetch is always the completed update
\* (never the except clause), and with a count of 0 that update, applied to a
\* stored record, still leaves it completed, with endpoints 0 in its statistics.
C11_AdvisoryFailureKeepsOutcome ==
    [][/\ (hpc = "start_fetch" /\ hpc' # hpc)
            => /\ hpc' = "start_lock" /\ req' = req /\ response' = response
               /\ hloc'.url = hloc.url /\ scans' = scans
       /\ (hpc = "start_insert" /\ hpc' # hpc /\ hloc.preview = 0)
            => /\ nextId \in DOMAIN scans'
               /\ scans'[nextId].status = "pending"
               /\ scans'[nextId].endpoints = 0
               /\ wpc'[nextId] = "scheduled"
               /\ response'.code = 200 /\ response'.id = nextId
       /\ \A id \in Ids :
            /\ (wpc[id] = "stats_fetch" /\ wpc'[id] # wpc[id])
                 => /\ wpc'[id] = "done_lock"
                    /\ wloc'[id].error = None
                    /\ wloc'[id].report = wloc[id].report
            /\ (wpc[id] = "done_update" /\ wpc'[id] # wpc[id]
                  /\ wloc[id].endpoint_count = 0 /\ Present(id))
                 => /\ id \in DOMAIN scans'
                    /\ scans'[id].status = "completed"
                    /\ Get(scans'[id].results).statistics.endpoints = 0]_vars

\* both advisory calls failed for one scan: its record was created with an
\* empty preview and is completed with an endpoint count of 0
C11_Witness ==
    \E id \in Ids :
        /\ Present(id) /\ scans[id].endpoints = 0
        /\ scans[id].status = "completed"
        /\ Get(scans[id].results).statistics.endpoints = 0

\* ---------------------------------------------------------------------------
\* C12: delete on an id that is not in the store answers 404 and leaves the
\* store as it was; delete on a stored id answers 200 and removes that record
\* only; and a delete of an id whose deletion has already succeeded answers 404.
C12_DeleteUnknownAndRepeated ==
    [][(hpc = "delete_body" /\ hpc' # hpc) =>
          /\ response'.op = "delete" /\ response'.id = req.id
          /\ ~Present(req.id) => (response'.code = 404 /\ scans' = scans)
          /\ Present(req.id) =>
               /\ response'.code = 200
               /\ DOMAIN scans' = DOMAIN scans \ {req.id}
               /\ \A o \in DOMAIN scans' : scans'[o] = scans[o]
          /\ req.id \in deleted => (response'.code = 404 /\ scans' = scans)]_vars

\* a second delete of an id deleted before was answered with 404
C12_Witness ==
    /\ response.op = "delete" /\ response.code = 404
    /\ response.id \in deleted

\* ---------------------------------------------------------------------------
\* C13: once delete(id) has returned true, id is never in the store again,
\* whatever id's worker still does; every later get of id answers 404 and no
\* later list, finished or in progress, holds a record of id.
C13_DeletedStaysAbsent ==
    \A id \in deleted :
        /\ ~Present(id)
        /\ (response.op = "get" /\ response.id = id) => response.code = 404
        /\ response.op = "list" =>
             \A i \in 1..Len(response.body) : response.body[i].scan_id # id
        /\ req.op = "list" =>
             /\ \A i \in 1..Len(hloc.refs) : hloc.refs[i] # id
             /\ \A i \in 1..Len(hloc.acc) : hloc.acc[i].scan_id # id

\* id was deleted while its worker was running, the worker has made its
\* remaining update calls (none was applied), and a later get answered 404
C13_Witness ==
    \E id \in deleted :
        /\ wpc[id] = "finished" /\ wloc[id].error # None
        /\ termUpdates[id] = 0
        /\ response.op = "get" /\ response.id = id /\ response.code = 404

\* ---------------------------------------------------------------------------
\* C14: the results handler answers 404 when the id is not in the store, 400
\* when the record's status, as it reads it, is not completed (pending, running
\* or failed), and for a completed record 200 with the statistics stored in the
\* record by the worker's completed update.
C14_ResultsCodes ==
    [][/\ (hpc = "results_ref" /\ hpc' # hpc) =>
             IF Present(req.id)
             THEN hpc' = "results_status" /\ response' = response
             ELSE response'.op = "results" /\ response'.code = 404
       /\ (hpc = "results_status" /\ hpc' # hpc) =>
             /\ Present(req.id)
             /\ IF scans[req.id].status = "completed"
                THEN hpc' = "results_read" /\ response' = response
                ELSE response'.op = "results" /\ response'.code = 400
       /\ (hpc = "results_read" /\ hpc' # hpc) =>
             /\ Present(req.id) /\ scans[req.id].status = "completed"
             /\ response'.op = "results" /\ response'.code = 200
             /\ response'.id = req.id
             /\ response'.body.status = "completed"
             /\ response'.body.statistics = Get(scans[req.id].results).statistics
             /\ \E v \in versions[req.id] :
                  /\ v.status = "completed"
                  /\ Get(v.results).statistics = response'.body.statistics]_vars

\* the results of a completed scan with failures were returned
C14_Witness ==
    /\ response.op = "results" /\ response.code = 200
    /\ response.body.statistics.failures > 0

\* ---------------------------------------------------------------------------
\* C15: every accepted scan id has had exactly one add_task(run_scan, id) call
\* and no other id has had any; a worker that has returned never runs again;
\* and a step of the worker of id leaves the set of stored ids and every
\* record but id's own as they were.
C15_OneWorkerOwnRecord ==
    /\ [](\A id \in Ids :
            /\ scheduled[id] = (IF id < nextId THEN 1 ELSE 0)
            /\ (wpc[id] = "none") <=> (scheduled[id] = 0))
    /\ [][\A id \in Ids :
            /\ wpc[id] = "finished" => wpc'[id] = "finished"
            /\ (wpc'[id] # wpc[id] /\ wpc[id] # "none") =>
                 /\ DOMAIN scans' = DOMAIN scans
                 /\ \A o \in DOMAIN scans \ {id} : scans'[o] = scans[o]]_vars

\* two scans were accepted, each worker was scheduled once and has returned,
\* one record is completed and the other failed
C15_Witness ==
    /\ \A id \in Ids : scheduled[id] = 1 /\ wpc[id] = "finished" /\ Present(id)
    /\ scans[1].status = "completed"
    /\ scans[2].status = "failed"

RECURSIVE CommandsBefore(_, _)
\* the number of commands in the first k kinds of a report
CommandsBefore(report, k) ==
    IF k = 0 THEN 0
    ELSE CommandsBefore(report, k - 1) + Len(report[k].cmds)

\* fs holds one entry per command of the report, kinds and commands in the
\* report's order
InReportOrder(report, fs) ==
    /\ Len(fs) = CommandsBefore(report, Len(report))
    /\ \A k \in 1..Len(report) :
         \A j \in 1..Len(report[k].cmds) :
            /\ fs[CommandsBefore(report, k - 1) + j].type = report[k].kind
            /\ fs[CommandsBefore(report, k - 1) + j].cmd = report[k].cmds[j]

\* C16: when run_scan applies its completed update with the engine's report
\* to a stored record, the record is completed, at progress 100, with an end
\* time, and its results hold that report, one flattened failure per command in
\* report order, and statistics in which failures is the sum of the lengths of
\* the per-kind lists, total_tests is the number of flattened failures, and
\* the two are equal.
C16_CompletedStatistics ==
    [][\A id \in Ids :
          (wpc[id] = "done_update" /\ wpc'[id] # wpc[id] /\ Present(id)) =>
             /\ id \in DOMAIN scans'
             /\ scans'[id].status = "completed"
             /\ scans'[id].progress = 100
             /\ scans'[id].end_time # None
             /\ scans'[id].results # None
             /\ LET report == wloc[id].report
                    res == Get(scans'[id].results)
                IN  /\ res.report = report
                    /\ InReportOrder(report, res.failures)
                    /\ res.statistics.failures = CommandsBefore(report, Len(report))
                    /\ res.statistics.total_tests = Len(res.failures)
                    /\ res.statistics.total_tests = res.statistics.failures
                    /\ scans'[id].tests_executed = res.statistics.total_tests
                    /\ scans'[id].failures_found = res.statistics.failures]_vars

\* a report with two kinds and three commands was stored
C16_Witness ==
    \E id \in Ids :
        /\ Present(id) /\ scans[id].status = "completed"
        /\ Len(Get(scans[id].results).report) = 2
        /\ Get(scans[id].results).statistics.failures = 3
        /\ Get(scans[id].results).statistics.total_tests = 3


\* ---------------------------------------------------------------------------
\* the parser's claims are about the documents it is given

\* x is a reference marker: a dict with a "$ref" that points into the document
IsMarker(x) ==
    /\ IsDict(x) /\ HasKey(x, "$ref")
    /\ TypeOf(DictGet(x, "$ref", JNull)) = "str"
    /\ StartsWithHashSlash(Content(DictGet(x, "$ref", JNull)))

RECURSIVE PointersIn(_)
\* the pointers of the reference markers found in x at any depth, inside dicts
\* and inside lists
PointersIn(x) ==
    CASE TypeOf(x) = "dict" ->
            (IF IsMarker(x) THEN {Content(DictGet(x, "$ref", JNull))} ELSE {})
            \cup UNION {PointersIn(Content(x)[i][2]) : i \in 1..Len(Content(x))}
      [] TypeOf(x) = "list" ->
            UNION {PointersIn(Content(x)[i]) : i \in 1..Len(Content(x))}
      [] OTHER -> {}

\* x holds a reference marker at some depth
HasMarker(x) == PointersIn(x) # {}

\* the pointers found in what the pointers of set ps point at in document d
PointedAt(ps, d) ==
    UNION {IF Walk(d, Tail(q)).ok THEN PointersIn(Walk(d, Tail(q)).v) ELSE {} : q \in ps}

RECURSIVE ReachedIn(_, _, _)
\* the pointers met within n steps when following the pointers of ps
ReachedIn(ps, d, n) ==
    IF n = 0 THEN {} ELSE PointedAt(ps, d) \cup ReachedIn(PointedAt(ps, d), d, n - 1)

\* no reference marker of the document leads back to its own pointer
NonCyclic(d) ==
    \A q \in PointersIn(d) : q \notin ReachedIn({q}, d, Cardinality(PointersIn(d)))

\* a call of one of the two parsers has returned or raised
Parsed == pout.op \in {"fetch_and_parse", "parse_from_file"}

\* C17: for every non-cyclic document on which fetch_and_parse or
\* parse_from_file returns, every Endpoint's method is one of the eight method
\* names, and no parameter schema and no request-body schema holds a reference
\* marker at any depth, inside dicts or inside lists.
C17_Original ==
    (Parsed /\ pout.out.ok /\ NonCyclic(source.body)) =>
        \A k \in 1..Len(pout.out.v) :
            /\ pout.out.v[k].method \in Methods
            /\ ~HasMarker(pout.out.v[k].request_body_schema)
            /\ \A n \in 1..Len(pout.out.v[k].parameters) :
                 ~HasMarker(pout.out.v[k].parameters[n].schema)

\* C18: for every non-cyclic document D and schema S for which resolve_refs(S, D)
\* returns, resolve_refs(resolve_refs(S, D), D) returns the same value.
C18_Original ==
    (pout.op = "resolve_refs" /\ pout.out.ok /\ NonCyclic(source.body)) =>
        /\ resolve_refs(pout.out.v, source.body, MaxDepth).ok
        /\ resolve_refs(pout.out.v, source.body, MaxDepth).v = pout.out.v

\* the paths object of the document read
PathsOf(d) == Content(DictGet(d, "paths", JDict(<<>>)))

\* the positions <<i, j>> of the well-formed operations of document d: the
\* j-th key of the i-th path item, when the path item is an object, the key a
\* method name in any case and the operation an object
WellFormed(d) ==
    {ij \in (1..Len(PathsOf(d))) \X (1..2) :
        /\ IsDict(PathsOf(d)[ij[1]][2])
        /\ ij[2] <= Len(Content(PathsOf(d)[ij[1]][2]))
        /\ Lower(Content(PathsOf(d)[ij[1]][2])[ij[2]][1]) \in Methods
        /\ IsDict(Content(PathsOf(d)[ij[1]][2])[ij[2]][2])}

\* the place of the well-formed operation at ij among the well-formed
\* operations of d, in document order
Rank(d, ij) ==
    Cardinality({o \in WellFormed(d) :
                    o[1] < ij[1] \/ (o[1] = ij[1] /\ o[2] <= ij[2])})

\* C19: for every document whose top level and paths are objects, the parser
\* returns one Endpoint per well-formed operation, in document order, with that
\* operation's path and lower-cased method, and raises nothing, unless there is
\* no well-formed operation, and then it raises the no-endpoints error.
C19_Original ==
    (Parsed /\ source.status = "ok" /\ IsDict(source.body)
       /\ IsDict(DictGet(source.body, "paths", JDict(<<>>)))) =>
        IF WellFormed(source.body) = {}
        THEN ~pout.out.ok /\ pout.out.err = "ValueError: No valid endpoints found"
        ELSE /\ pout.out.ok
             /\ Len(pout.out.v) = Cardinality(WellFormed(source.body))
             /\ \A ij \in WellFormed(source.body) :
                  /\ pout.out.v[Rank(source.body, ij)].path
                        = PathsOf(source.body)[ij[1]][1]
                  /\ pout.out.v[Rank(source.body, ij)].method
                        = Lower(Content(PathsOf(source.body)[ij[1]][2])[ij[2]][1])

\* ---------------------------------------------------------------------------
\* C20: no step takes a stored record from pending to completed or failed,
\* and every stored record that is completed or failed has been pending and
\* then running: the worker's running update was applied to it first.
C20_RunningBeforeTerminal ==
    /\ [][\A id \in Ids :
            (Present(id) /\ id \in DOMAIN scans' /\ scans[id].status = "pending")
               => scans'[id].status \in {"pending", "running"}]_vars
    /\ [](\A id \in DOMAIN scans :
            scans[id].status \in Terminal =>
               /\ \E v \in versions[id] : v.status = "pending"
               /\ \E v \in versions[id] : v.status = "running" /\ v.progress = 10)
    /\ [](\A id \in Ids :
            wpc[id] \in {"done_lock", "done_update", "except_lock", "except_update"}
               => (Present(id) => scans[id].status = "running"))

\* a record is failed and another completed, both after having been running
C20_Witness ==
    \E id \in DOMAIN scans :
        /\ scans[id].status = "failed"
        /\ \E v \in versions[id] : v.status = "running"

\* the k-th command of the report, kinds and commands taken in the report's
\* order, with the key it is listed under
RECURSIVE Listed(_)
Listed(report) ==
    IF report = <<>> THEN <<>>
    ELSE [j \in 1..Len(Head(report).cmds) |->
             [key |-> Head(report).kind, cmd |-> Head(report).cmds[j]]]
         \o Listed(Tail(report))

ContainsText(cmd, lit) ==
    \E i \in 1..Len(cmd) :
        i + Len(lit) - 1 <= Len(cmd) /\ \A j \in 1..Len(lit) : cmd[i + j - 1] = lit[j]

\* the text from a to b is enclosed by the quote q at a - 1 and at b + 1
Quoted(cmd, a, b, q) ==
    /\ a >= 2 /\ b + 1 <= Len(cmd) /\ a <= b + 1
    /\ cmd[a - 1] = q /\ cmd[b + 1] = q
    /\ \A j \in a..b : cmd[j] # q

\* the double-quoted texts that are an absolute http or https URL
IsAbsoluteUrl(text) ==
    \/ Len(text) >= 3 /\ text[1] = "http" /\ text[2] = "://"
    \/ Len(text) >= 4 /\ text[1] = "http" /\ text[2] = "s" /\ text[3] = "://"

QuotedUrls(cmd) ==
    { ab \in (1..Len(cmd)) \X (1..Len(cmd)) :
        Quoted(cmd, ab[1], ab[2], DQ) /\ IsAbsoluteUrl(SubSeq(cmd, ab[1], ab[2])) }

\* the single-quoted texts, the empty one included, that follow a body flag
BodyTexts(cmd) ==
    { ab \in (1..Len(cmd)) \X (0..Len(cmd)) :
        /\ Quoted(cmd, ab[1], ab[2], SQ)
        /\ ab[1] >= 4 /\ cmd[ab[1] - 3] = "-d" /\ cmd[ab[1] - 2] = " " }

First(spans) == CHOOSE ab \in spans : \A cd \in spans : ab[1] <= cd[1]

HasBodyFlag(cmd) == \E i \in 1..Len(cmd) : cmd[i] = "-d"

MethodAsClaimed(e, cmd) ==
    e.method = IF ContainsText(cmd, PostMarker) THEN "POST" ELSE "GET"

UrlAsClaimed(e, cmd) ==
    IF QuotedUrls(cmd) = {} THEN e.url = <<>>
    ELSE e.url = SubSeq(cmd, First(QuotedUrls(cmd))[1], First(QuotedUrls(cmd))[2])

PayloadAsClaimed(e, cmd) ==
    /\ ~HasBodyFlag(cmd) => e.payload = EmptyObject
    /\ BodyTexts(cmd) # {}
       => e.payload = SubSeq(cmd, First(BodyTexts(cmd))[1], First(BodyTexts(cmd))[2])

Converted == fpc = "done"

\* C21: when the report has been converted, failures_list has one entry per
\* listed command, in order, and the entry of each command has method POST
\* if the command contains "-X POST" and GET otherwise, url equal to the
\* first double-quoted absolute http(s) URL of the command (empty when there
\* is none), payload equal to the single-quoted text that follows the body
\* flag -d and "{}" when the command has no body flag, and type equal to the
\* report key the command is listed under.
C21_Original ==
    Converted =>
        /\ Len(failures_list) = Len(Listed(engine_report))
        /\ \A n \in 1..Len(Listed(engine_report)) :
             /\ MethodAsClaimed(failures_list[n], Listed(engine_report)[n].cmd)
             /\ UrlAsClaimed(failures_list[n], Listed(engine_report)[n].cmd)
             /\ PayloadAsClaimed(failures_list[n], Listed(engine_report)[n].cmd)
             /\ failures_list[n].type = Listed(engine_report)[n].key

\* a field that is None is absent, any other value is present
Consistent(rec) ==
    /\ rec.status \in Terminal <=> (rec.progress = 100 /\ ~IsNone(rec.end_time))
    /\ ~IsNone(rec.results) <=> rec.status = "completed"
    /\ ~IsNone(rec.error) <=> rec.status = "failed"

\* C22: in every reachable state every record in the store has status
\* completed or failed if and only if its progress is 100 and its end time
\* is set, has results if and only if its status is completed, and has an
\* error message if and only if its status is failed.
C22_RecordsConsistent == \A id \in DOMAIN scans : Consistent(scans[id])

\* a completed record and a failed record are in the store together
C22_Witness ==
    \E a \in DOMAIN scans, b \in DOMAIN scans :
        /\ scans[a].status = "completed" /\ scans[a].results # None
        /\ scans[b].status = "failed" /\ scans[b].error # None


============================================================================
